---- MODULE Spec2Model ----
(***************************************************************************)
(* A model of scrybuy-api (src/src/scrybuy-api/main.py): the in-memory     *)
(* price store, the two vendor payload files, the two streaming parsers,   *)
(* the refresh cycle, the periodic task, the lifespan of the application   *)
(* and the /prices query.                                                  *)
(*                                                                         *)
(* Strings the code inspects character by character (card ids, item urls,  *)
(* decimal prices) are sequences of one-character strings.  Time is counted *)
(* in minutes.  A JSON object is a record whose DOMAIN is the keys present. *)
(***************************************************************************)
EXTENDS Integers, Sequences, FiniteSets, TLC

VARIABLES
    prices,     \* the store: card id -> Price
    files,      \* vendor -> NoFile or [content, age] (the payload file on disk)
    lifespan,   \* where lifespan() stands
    task,       \* the periodic_refresh task
    phase,      \* where the running refresh_prices() call stands
    download,   \* vendor -> download_mana_pool / download_card_kingdom
    fetch,      \* vendor -> state of this cycle's get_and_save coroutine
    parsed,     \* vendor -> outcome of this cycle's parser call
    orphans,    \* vendor -> get_and_save tasks left running by a raised gather
    response    \* what the last get_prices call sent back

vars == <<prices, files, lifespan, task, phase, download, fetch, parsed,
          orphans, response>>

-----------------------------------------------------------------------------
(* Program constants *)

CENTS_PER_DOLLAR == 100
MANA_POOL_MAX_AGE == 10
CARD_KINGDOM_MAX_AGE == 60
REFRESH_INTERVAL == 1

(* Bounds of the model *)

\* get_and_save tasks of one vendor that may be left running at a time
MaxOrphans == 1
\* longest list of ids one query carries
MaxIds == 2
\* longest "data" array of the payloads drawn for one parse
MaxItems == 3

-----------------------------------------------------------------------------
(* Data model *)

\* Python's None, JSON's null
None == [none |-> TRUE]

\* a JSON number and a JSON string, as ijson hands them over
Num(n) == [num |-> n]
Str(s) == [str |-> s]

MANA_POOL == "manaPool"
CARD_KINGDOM == "cardKingdom"
Vendors == {MANA_POOL, CARD_KINGDOM}
Finishes == {"nonfoil", "foil", "etched"}

FinishEntry(url, price) == [url |-> url, price |-> price]

\* VendorEntry(): every finish defaults to None
VendorEntry == [nonfoil |-> None, foil |-> None, etched |-> None]

\* Price(): every vendor slot defaults to None
Price == [manaPool |-> None, cardKingdom |-> None]

\* prices = {}
EmptyStore == [c \in {} |-> Price]

\* a float with two exact decimals, as the code's callers produce it
Dollars(cents) ==
    [units |-> cents \div CENTS_PER_DOLLAR, hundredths |-> cents % CENTS_PER_DOLLAR]

\* f"{currency}{price:.2f}"
format_price(price, currency) ==
    <<currency, price.units, ".", price.hundredths \div 10, price.hundredths % 10>>

\* Python truthiness of a JSON number or null: 0 and None are falsy
Truthy(v) == v # None /\ v # Num(0)

\* needle in hay, for sequences of characters
IsSubstring(needle, hay) ==
    \E i \in 0..(Len(hay) - Len(needle)) :
        \A j \in 1..Len(needle) : hay[i + j] = needle[j]

Digits == <<"0", "1", "2", "3", "4", "5", "6", "7", "8", "9">>
IsDigit(ch) == \E d \in 1..10 : Digits[d] = ch
DigitValue(ch) == (CHOOSE d \in 1..10 : Digits[d] = ch) - 1

RECURSIVE Number(_)
\* the value of a sequence of digit characters
Number(s) ==
    IF s = <<>> THEN 0
    ELSE 10 * Number(SubSeq(s, 1, Len(s) - 1)) + DigitValue(s[Len(s)])

\* float(s) for a decimal string "d+", "d+.d" or "d+.dd"; ValueError otherwise
\* (strings with more decimals are outside the modelled inputs)
float(s) ==
    LET dots == {i \in 1..Len(s) : s[i] = "."}
        dot == IF dots = {} THEN Len(s) + 1 ELSE CHOOSE i \in dots : TRUE
        whole == SubSeq(s, 1, dot - 1)
        frac == SubSeq(s, dot + 1, Len(s))
        wellFormed == /\ Cardinality(dots) <= 1
                      /\ (whole # <<>> \/ frac # <<>>)
                      /\ Len(frac) <= 2
                      /\ \A i \in 1..Len(s) : i \in dots \/ IsDigit(s[i])
    IN  IF ~wellFormed THEN [ok |-> FALSE]
        ELSE [ok |-> TRUE,
              value |-> [units |-> Number(whole),
                         hundredths |-> IF Len(frac) = 1 THEN 10 * Number(frac)
                                        ELSE Number(frac)]]

-----------------------------------------------------------------------------
(* The payload files and the parsers *)

\* path.exists() is False
NoFile == [exists |-> FALSE]

\* a payload file: the items of its "data" array that a streaming parse yields
\* in order, and whether the document is complete after them (an incomplete or
\* invalid document makes ijson raise once those items are consumed)
File(items, complete, age) ==
    [exists |-> TRUE, content |-> [items |-> items, complete |-> complete],
     age |-> age]

\* `prices = {id: value}`: the other cards are gone
PutAlone(store, id, value) == [c \in {id} |-> value]

\* prices[id] = value
Put(store, id, value) ==
    [c \in DOMAIN store \cup {id} |-> IF c = id THEN value ELSE store[c]]

\* lines 77-78 and 110-111: `if scryfall_id not in prices: prices[id] = Price()`
Created(store, id) == IF id \in DOMAIN store THEN store ELSE Put(store, id, Price)

\* `entry = VendorEntry()`: every item starts from an empty entry
EntryNew(slot) == VendorEntry

\* lines 79 and 112: `prices[id].<vendor> or VendorEntry()`; a model instance
\* is truthy, so a slot that is set is the entry worked on
Entry(slot) == IF slot # None THEN slot ELSE VendorEntry

\* `prices[id] = Price(<vendor>=entry)`: the other vendor's slot is gone
AssignFresh(store, id, vendor, entry) ==
    Put(store, id, [Price EXCEPT ![vendor] = entry])

\* lines 99 and 123: `prices[id].<vendor> = entry`
Assign(store, id, vendor, entry) ==
    Put(store, id, [store[id] EXCEPT ![vendor] = entry])

\* lines 80-98: `if item[key]: entry.<finish> = FinishEntry(...)`, on the
\* running result r = [entry, ok]; a key the item lacks raises KeyError
ManaPoolFinish(r, item, key, finish, suffix) ==
    IF ~r.ok THEN r
    ELSE IF key \notin DOMAIN item THEN [entry |-> r.entry, ok |-> FALSE]
    ELSE IF ~Truthy(item[key]) THEN r
    ELSE IF "url" \notin DOMAIN item THEN [entry |-> r.entry, ok |-> FALSE]
    ELSE [entry |-> [r.entry EXCEPT ![finish] =
                        FinishEntry(item.url.str \o suffix,
                                    format_price(Dollars(item[key].num), "$"))],
          ok |-> TRUE]

FOIL_QUERY == <<"?finish=foil">>

\* lines 79-99 for an item whose card has its record in the store.
\* `entry` is the object already in the store when the slot is set, so what an
\* item writes before it raises stays written; a fresh VendorEntry() reaches
\* the store only by the assignment of line 99.
ManaPoolEntry(store, item) ==
    LET id == item.scryfall_id.str
        slot == store[id].manaPool
        r1 == ManaPoolFinish([entry |-> Entry(slot), ok |-> TRUE], item,
                             "price_cents", "nonfoil", <<>>)
        r2 == ManaPoolFinish(r1, item, "price_cents_foil", "foil", FOIL_QUERY)
        r3 == ManaPoolFinish(r2, item, "price_cents_etched", "etched", FOIL_QUERY)
    IN  IF r3.ok \/ slot # None
        THEN [store |-> Assign(store, id, MANA_POOL, r3.entry), ok |-> r3.ok]
        ELSE [store |-> store, ok |-> FALSE]

\* the record is created for a new card and the rest of the body is skipped
ManaPoolItemElse(store, item) ==
    IF "scryfall_id" \notin DOMAIN item THEN [store |-> store, ok |-> FALSE]
    ELSE IF item.scryfall_id = None THEN [store |-> store, ok |-> TRUE]
    ELSE IF item.scryfall_id.str \notin DOMAIN store
         THEN [store |-> Created(store, item.scryfall_id.str), ok |-> TRUE]
         ELSE ManaPoolEntry(store, item)

\* lines 74-99: the body of load_mana_pool_prices' loop for one item; an item
\* without the key raises KeyError, one whose id is null is skipped
ManaPoolItem(store, item) ==
    IF "scryfall_id" \notin DOMAIN item THEN [store |-> store, ok |-> FALSE]
    ELSE IF item.scryfall_id = None THEN [store |-> store, ok |-> TRUE]
    ELSE ManaPoolEntry(Created(store, item.scryfall_id.str), item)

RECURSIVE ManaPoolItems(_, _)
\* line 73: the loop over the items the parser yields
ManaPoolItems(store, items) ==
    IF items = <<>> THEN [store |-> store, ok |-> TRUE]
    ELSE LET r == ManaPoolItem(store, Head(items))
         IN  IF r.ok THEN ManaPoolItems(r.store, Tail(items)) ELSE r

\* lines 69-99: the store after the call, and whether it returned (ok) or raised
load_mana_pool_prices(store, file) ==
    IF ~file.exists THEN [store |-> store, ok |-> TRUE]
    ELSE LET r == ManaPoolItems(store, file.content.items)
         IN  [store |-> r.store, ok |-> r.ok /\ file.content.complete]

CARD_KINGDOM_ORIGIN == <<"https://www.cardkingdom.com/">>
ETCHED == <<"e", "t", "c", "h", "e", "d">>
FOIL == <<"f", "o", "i", "l">>

\* lines 117-122: the finish an item's url names
Classify(url) ==
    IF IsSubstring(ETCHED, url) THEN "etched"
    ELSE IF IsSubstring(FOIL, url) THEN "foil"
    ELSE "nonfoil"

\* lines 112-123 for an item whose card has its record in the store; the
\* FinishEntry is built (lines 113-116) before anything is written
CardKingdomEntry(store, item) ==
    LET id == item.scryfall_id.str
        entry == Entry(store[id].cardKingdom)
    IN  IF \/ "url" \notin DOMAIN item
           \/ "price_retail" \notin DOMAIN item
           \/ ~float(item.price_retail.str).ok
        THEN [store |-> store, ok |-> FALSE]
        ELSE
          LET subentry ==
                  FinishEntry(CARD_KINGDOM_ORIGIN \o item.url.str,
                              format_price(float(item.price_retail.str).value, "$"))
              updated == [entry EXCEPT ![Classify(item.url.str)] = subentry]
          IN  [store |-> Assign(store, id, CARD_KINGDOM, updated), ok |-> TRUE]

\* lines 107-123: the body of load_card_kingdom_prices' loop for one item
CardKingdomItem(store, item) ==
    IF "scryfall_id" \notin DOMAIN item THEN [store |-> store, ok |-> FALSE]
    ELSE IF item.scryfall_id = None THEN [store |-> store, ok |-> TRUE]
    ELSE CardKingdomEntry(Created(store, item.scryfall_id.str), item)

RECURSIVE CardKingdomItems(_, _)
\* line 106: the loop over the items the parser yields
CardKingdomItems(store, items) ==
    IF items = <<>> THEN [store |-> store, ok |-> TRUE]
    ELSE LET r == CardKingdomItem(store, Head(items))
         IN  IF r.ok THEN CardKingdomItems(r.store, Tail(items)) ELSE r

\* lines 102-123: the store after the call, and whether it returned or raised
load_card_kingdom_prices(store, file) ==
    IF ~file.exists THEN [store |-> store, ok |-> TRUE]
    ELSE LET r == CardKingdomItems(store, file.content.items)
         IN  [store |-> r.store, ok |-> r.ok /\ file.content.complete]

-----------------------------------------------------------------------------
(* The inputs: what the two vendors serve, and how long a sleep lasts *)

CardA == <<"a">>
CardB == <<"b">>

ManaPoolRecord(id, url, cents, foil, etched) ==
    [scryfall_id |-> id, url |-> Str(url), price_cents |-> cents,
     price_cents_foil |-> foil, price_cents_etched |-> etched]

CardKingdomRecord(id, url, retail) ==
    [scryfall_id |-> id, url |-> Str(url), price_retail |-> Str(retail)]

\* the "data" arrays Mana Pool may serve
ManaPoolFeeds ==
    { << ManaPoolRecord(Str(CardA), <<"m", "a">>, Num(150), Num(0), None) >>,
      << ManaPoolRecord(Str(CardA), <<"m", "a">>, Num(0), Num(250), None),
         ManaPoolRecord(Str(CardB), <<"m", "b">>, None, None, Num(400)),
         ManaPoolRecord(None, <<"m", "n">>, Num(5), Num(0), Num(0)) >>,
      \* an item without price_cents_foil, then a well-formed one
      << [scryfall_id |-> Str(CardB), url |-> Str(<<"m", "b">>), price_cents |-> Num(175)],
         ManaPoolRecord(Str(CardA), <<"m", "a">>, Num(150), Num(0), None) >> }

\* the "data" arrays Card Kingdom may serve
CardKingdomFeeds ==
    { << CardKingdomRecord(Str(CardA), <<"k", "a">>, <<"1", ".", "5">>) >>,
      << CardKingdomRecord(Str(CardA), <<"k", "a", "-", "f", "o", "i", "l">>, <<"2">>),
         CardKingdomRecord(Str(CardB),
                           <<"k", "b", "-", "f", "o", "i", "l", "-",
                             "e", "t", "c", "h", "e", "d">>,
                           <<"3", ".", "2", "5">>),
         CardKingdomRecord(None, <<"k", "n">>, <<"1">>) >>,
      \* an item without price_retail, then a well-formed one
      << [scryfall_id |-> Str(CardB), url |-> Str(<<"k", "b">>)],
         CardKingdomRecord(Str(CardA), <<"k", "a">>, <<"1", ".", "5">>) >> }

\* the feeds of vendor v in an environment env = [feeds, sleep]
Feeds(env, v) == env.feeds[v]

\* a document cut before its last item (a partial write, or a body that is not
\* valid JSON from there on)
Cut(feed) == [items |-> SubSeq(feed, 1, Len(feed) - 1), complete |-> FALSE]

\* the documents a vendor's endpoint may answer with: a feed, or a feed whose
\* document is invalid before its last item
Bodies(env, v) ==
    {[items |-> feed, complete |-> TRUE] : feed \in Feeds(env, v)}
        \cup {Cut(feed) : feed \in {f \in Feeds(env, v) : Len(f) > 1}}

\* the sleep of line 162 lasts at least the interval; these are the minutes
\* that pass between two wake-ups of the periodic task
SleepMinutes ==
    {d \in {MANA_POOL_MAX_AGE, CARD_KINGDOM_MAX_AGE} : d >= REFRESH_INTERVAL}

\* the environment of the refresh pipeline
Env ==
    [feeds |-> [v \in Vendors |->
                  IF v = MANA_POOL THEN ManaPoolFeeds ELSE CardKingdomFeeds],
     sleep |-> SleepMinutes]

-----------------------------------------------------------------------------
(* The state machine *)

MaxAge(v) == IF v = MANA_POOL THEN MANA_POOL_MAX_AGE ELSE CARD_KINGDOM_MAX_AGE

\* lines 49-52; a file's age is now - mtime
is_path_fresh(file, max_age) == file.exists /\ file.age < max_age

Min(a, b) == IF a < b THEN a ELSE b

\* the clock moves on by d minutes; an age past the max-age is kept at it
Older(v, file, d) ==
    IF file.exists THEN [file EXCEPT !.age = Min(@ + d, MaxAge(v))] ELSE file

NoResponse == [sent |-> FALSE]

\* no task is between two suspension points of a synchronous stretch of code
AtSuspension == phase \in {"idle", "gather"}

\* the payload files a starting process may find: none, or one written by an
\* earlier process, fresh or stale
StartFiles(env, v) ==
    {NoFile} \cup {File(b.items, b.complete, a) :
                     b \in Bodies(env, v), a \in {0, MaxAge(v)}}

\* the state once the module is loaded (line 42: prices = {}) and lifespan
\* is about to run its priming refresh_prices() (line 170)
Start(env) ==
    /\ prices = EmptyStore
    /\ files \in {f \in [Vendors -> UNION {StartFiles(env, v) : v \in Vendors}] :
                    \A v \in Vendors : f[v] \in StartFiles(env, v)}
    /\ lifespan = "refresh_prices"
    /\ task = "not_created"
    /\ phase = "check"
    /\ download = [v \in Vendors |-> FALSE]
    /\ fetch = [v \in Vendors |-> "none"]
    /\ parsed = [v \in Vendors |-> "none"]
    /\ orphans = [v \in Vendors |-> 0]
    /\ response = NoResponse

\* refresh_prices returns to its caller: lifespan (lines 171-172: the periodic
\* task is created and the application starts serving) or periodic_refresh
\* (line 162: the next sleep)
Return ==
    /\ phase' = "idle"
    /\ task' = "sleep"
    /\ lifespan' = IF lifespan = "refresh_prices" THEN "serving" ELSE lifespan

\* the exception of the mutated handler propagates: out of the periodic task,
\* or out of lifespan when the cycle is the priming one
Uncaught ==
    /\ phase' = "idle"
    /\ IF lifespan = "refresh_prices"
       THEN lifespan' = "failed" /\ task' = task
       ELSE task' = "failed" /\ lifespan' = lifespan

\* lines 156-157: `except Exception` catches what the body raised, prints it,
\* and refresh_prices returns as after a cycle that went well
Except == Return

\* lines 128-150: the freshness checks, and the downloads handed to gather
Check ==
    /\ phase = "check"
    /\ download' = [v \in Vendors |-> ~is_path_fresh(files[v], MaxAge(v))]
    /\ parsed' = [v \in Vendors |-> "none"]
    /\ fetch' = [v \in Vendors |-> IF download'[v] THEN "pending" ELSE "none"]
    /\ IF \E v \in Vendors : download'[v]
       THEN phase' = "gather" /\ UNCHANGED <<lifespan, task>>
       ELSE Return
    /\ UNCHANGED <<prices, files, orphans, response>>

\* lines 55-66, a run that ends well: the body is on disk, written now
Saved(body) == File(body.items, body.complete, 0)

\* lines 64-66, a run that raises while writing: the file holds a cut body
Partial(body) == File(Cut(body.items).items, FALSE, 0)

\* the files a run of get_and_save for v may leave when it raises: the file
\* as it was (no connection, a timeout, an error status: line 63), or a
\* partial one
FailedFiles(env, v) ==
    {files} \cup {[files EXCEPT ![v] = Partial(b)] :
                    b \in {c \in Bodies(env, v) : c.complete}}

\* get_and_save of this cycle ends well
FetchDone(v, body) ==
    /\ phase = "gather"
    /\ fetch[v] = "pending"
    /\ fetch' = [fetch EXCEPT ![v] = "done"]
    /\ files' = [files EXCEPT ![v] = Saved(body)]
    /\ UNCHANGED <<prices, lifespan, task, phase, download, parsed, orphans, response>>

\* get_and_save of this cycle raises
FetchFailed(env, v) ==
    /\ phase = "gather"
    /\ fetch[v] = "pending"
    /\ fetch' = [fetch EXCEPT ![v] = "failed"]
    /\ files' \in FailedFiles(env, v)
    /\ UNCHANGED <<prices, lifespan, task, phase, download, parsed, orphans, response>>

\* line 150 raises the first exception of a download; lines 156-157 catch it
\* and the call returns.  gather does not cancel the other download: it runs on.
\* The downloads that ended keep their outcome until the next cycle's checks
GatherRaises ==
    /\ phase = "gather"
    /\ lifespan # "await_task"
    /\ \E v \in Vendors : fetch[v] = "failed"
    /\ \A v \in Vendors : fetch[v] = "pending" => orphans[v] < MaxOrphans
    /\ orphans' = [v \in Vendors |->
                     IF fetch[v] = "pending" THEN orphans[v] + 1 ELSE orphans[v]]
    /\ fetch' = [v \in Vendors |-> IF fetch[v] = "pending" THEN "none" ELSE fetch[v]]
    /\ Except
    /\ UNCHANGED <<prices, files, download, parsed, response>>

\* line 150 returns: every download ended well.  The downloads keep their
\* outcome until the next cycle's checks
GatherReturns ==
    /\ phase = "gather"
    /\ lifespan # "await_task"
    /\ \A v \in Vendors : download[v] => fetch[v] = "done"
    /\ phase' = "load_mana_pool"
    /\ UNCHANGED <<prices, files, lifespan, task, download, fetch, parsed, orphans, response>>

\* lines 152-153
LoadManaPool ==
    /\ phase = "load_mana_pool"
    /\ IF download[MANA_POOL]
       THEN LET r == load_mana_pool_prices(prices, files[MANA_POOL])
            IN  /\ prices' = r.store
                /\ parsed' = [parsed EXCEPT ![MANA_POOL] = IF r.ok THEN "ok" ELSE "failed"]
                /\ IF r.ok
                   THEN phase' = "load_card_kingdom" /\ UNCHANGED <<lifespan, task>>
                   ELSE Except
       ELSE /\ phase' = "load_card_kingdom"
            /\ UNCHANGED <<prices, parsed, lifespan, task>>
    /\ UNCHANGED <<files, download, fetch, orphans, response>>

\* `await load_card_kingdom_prices(...)` without the test of line 154: the file
\* on disk is parsed in every cycle that gets there
LoadCardKingdomAlways ==
    /\ phase = "load_card_kingdom"
    /\ LET r == load_card_kingdom_prices(prices, files[CARD_KINGDOM])
       IN  /\ prices' = r.store
           /\ parsed' = [parsed EXCEPT ![CARD_KINGDOM] = IF r.ok THEN "ok" ELSE "failed"]
           /\ IF r.ok THEN Return ELSE Except
    /\ UNCHANGED <<files, download, fetch, orphans, response>>

\* lines 154-155, and the return
LoadCardKingdom ==
    /\ phase = "load_card_kingdom"
    /\ IF download[CARD_KINGDOM]
       THEN LET r == load_card_kingdom_prices(prices, files[CARD_KINGDOM])
            IN  /\ prices' = r.store
                /\ parsed' = [parsed EXCEPT ![CARD_KINGDOM] = IF r.ok THEN "ok" ELSE "failed"]
                /\ IF r.ok THEN Return ELSE Except
       ELSE Return /\ UNCHANGED <<prices, parsed>>
    /\ UNCHANGED <<files, download, fetch, orphans, response>>

\* a download that gather left running ends well
OrphanDone(v, body) ==
    /\ AtSuspension
    /\ lifespan # "exited"
    /\ orphans[v] > 0
    /\ orphans' = [orphans EXCEPT ![v] = @ - 1]
    /\ files' = [files EXCEPT ![v] = Saved(body)]
    /\ UNCHANGED <<prices, lifespan, task, phase, download, fetch, parsed, response>>

\* a download that gather left running raises; nobody awaits it
OrphanFailed(env, v) ==
    /\ AtSuspension
    /\ lifespan # "exited"
    /\ orphans[v] > 0
    /\ orphans' = [orphans EXCEPT ![v] = @ - 1]
    /\ files' \in FailedFiles(env, v)
    /\ UNCHANGED <<prices, lifespan, task, phase, download, fetch, parsed, response>>

\* a timer that starts a cycle every d minutes, whether or not the cycle before
\* has returned
WakeEarly(d) ==
    /\ task \in {"sleep", "refresh_prices"}
    /\ lifespan = "serving"
    /\ task' = "refresh_prices"
    /\ phase' = "check"
    /\ files' = [v \in Vendors |-> Older(v, files[v], d)]
    /\ UNCHANGED <<prices, lifespan, download, fetch, parsed, orphans, response>>

\* lines 161-163: the sleep ends after d minutes and the next cycle starts
Wake(d) ==
    /\ task = "sleep"
    /\ lifespan = "serving"
    /\ task' = "refresh_prices"
    /\ phase' = "check"
    /\ files' = [v \in Vendors |-> Older(v, files[v], d)]
    /\ UNCHANGED <<prices, lifespan, download, fetch, parsed, orphans, response>>

\* line 173: the application shuts down and lifespan cancels the task
Cancel ==
    /\ lifespan = "serving"
    /\ AtSuspension
    /\ lifespan' = "await_task"
    /\ UNCHANGED <<prices, files, task, phase, download, fetch, parsed, orphans, response>>

\* `except Exception` of a handler that also catches CancelledError: the cycle
\* returns, or the sleep is begun again, and the task goes on
TaskSwallows(env) ==
    /\ lifespan = "await_task"
    /\ task \in {"sleep", "refresh_prices"}
    /\ AtSuspension
    /\ task' = "sleep"
    /\ phase' = "idle"
    /\ fetch' = [v \in Vendors |-> "none"]
    /\ UNCHANGED <<prices, files, lifespan, download, parsed, orphans, response>>

\* CancelledError reaches the task where it is suspended: in the sleep of line
\* 162, or in the gather of line 150, which cancels its downloads; `except
\* Exception` does not catch it, and the task ends cancelled
TaskCancelled(env) ==
    /\ lifespan = "await_task"
    /\ task \in {"sleep", "refresh_prices"}
    /\ AtSuspension
    /\ task' = "cancelled"
    /\ phase' = "idle"
    /\ fetch' = [v \in Vendors |-> "none"]
    /\ files' \in {f \in UNION {FailedFiles(env, v) : v \in Vendors} :
                     \A v \in Vendors : fetch[v] # "pending" => f[v] = files[v]}
    /\ UNCHANGED <<prices, lifespan, download, parsed, orphans, response>>

\* lines 174-177: the await of the cancelled task returns
Exit ==
    /\ lifespan = "await_task"
    /\ task = "cancelled"
    /\ lifespan' = "exited"
    /\ UNCHANGED <<prices, files, task, phase, download, fetch, parsed, orphans, response>>

\* str.replace(old, ""), for a one-character old
Replace(s, old) == SelectSeq(s, LAMBDA ch : ch # old)

QUOTE == "\""

\* `[prices[id] for id in scryfall_ids if id in prices]`: an unknown id gets
\* no position
get_prices_known(store, scryfall_ids) ==
    LET known == SelectSeq(scryfall_ids, LAMBDA id : id \in DOMAIN store)
    IN  [i \in 1..Len(known) |-> store[known[i]]]

\* lines 199-202
get_prices(store, scryfall_ids) ==
    [i \in 1..Len(scryfall_ids) |->
        LET id == Replace(scryfall_ids[i], QUOTE)
        IN  IF id \in DOMAIN store THEN store[id] ELSE Price]

\* a handler reachable before lifespan has yielded (line 172)
GetPricesEarly(scryfall_ids) ==
    /\ lifespan \in {"refresh_prices", "serving"}
    /\ AtSuspension
    /\ response' = [sent |-> TRUE, ids |-> scryfall_ids,
                    body |-> get_prices(prices, scryfall_ids)]
    /\ UNCHANGED <<prices, files, lifespan, task, phase, download, fetch, parsed, orphans>>

\* GET /prices?id=...: the handler runs between two suspension points of the
\* refresh, once the application serves
GetPrices(scryfall_ids) ==
    /\ lifespan = "serving"
    /\ AtSuspension
    /\ response' = [sent |-> TRUE, ids |-> scryfall_ids,
                    body |-> get_prices(prices, scryfall_ids)]
    /\ UNCHANGED <<prices, files, lifespan, task, phase, download, fetch, parsed, orphans>>

\* the ids a client may send
RequestIds == {CardA, <<QUOTE, "a", QUOTE>>, <<"z">>}

RECURSIVE SeqsUpTo(_, _)
SeqsUpTo(S, n) ==
    IF n = 0 THEN {<<>>}
    ELSE LET shorter == SeqsUpTo(S, n - 1)
         IN  shorter \cup {Append(s, x) : s \in {t \in shorter : Len(t) = n - 1}, x \in S}

\* the refresh pipeline: the cycles, the downloads and the periodic task
Refresh(env) ==
    \/ Check
    \/ \E v \in Vendors : \E body \in Bodies(env, v) : FetchDone(v, body)
    \/ \E v \in Vendors : FetchFailed(env, v)
    \/ GatherRaises
    \/ GatherReturns
    \/ LoadManaPool
    \/ LoadCardKingdom
    \/ \E v \in Vendors : \E body \in Bodies(env, v) : OrphanDone(v, body)
    \/ \E v \in Vendors : OrphanFailed(env, v)
    \/ \E d \in env.sleep : Wake(d)

\* the shutdown of the application
Shutdown(env) ==
    \/ Cancel
    \/ TaskCancelled(env)
    \/ Exit

Init == Start(Env)

Next == Refresh(Env)

Spec == Init /\ [][Next]_vars

\* items Card Kingdom may list: one card in several finishes and at several
\* prices, and another card
CardKingdomPool ==
    { CardKingdomRecord(Str(CardA), <<"k", "a">>, <<"1", ".", "5">>),
      CardKingdomRecord(Str(CardA), <<"k", "a">>, <<"1", ".", "7", "5">>),
      CardKingdomRecord(Str(CardA), <<"k", "a", "-", "f", "o", "i", "l">>, <<"2">>),
      CardKingdomRecord(Str(CardA),
                        <<"k", "a", "-", "f", "o", "i", "l", "-",
                          "e", "t", "c", "h", "e", "d">>,
                        <<"3", ".", "2", "5">>),
      CardKingdomRecord(Str(CardB), <<"k", "b">>, <<"1", ".", "5">>) }

\* the stores earlier cycles may have left: empty, or one vendor's feed loaded
ParseStores ==
    {EmptyStore}
        \cup {load_card_kingdom_prices(EmptyStore, Saved(b)).store :
                b \in {c \in Bodies(Env, CARD_KINGDOM) : c.complete}}
        \cup {load_mana_pool_prices(EmptyStore, Saved(b)).store :
                b \in {c \in Bodies(Env, MANA_POOL) : c.complete}}

\* a steady-state cycle whose two downloads have ended well (line 150 has
\* returned): Mana Pool's file is one of its feeds, Card Kingdom's any list of
\* up to MaxItems items of the pool
StartParse ==
    /\ prices \in ParseStores
    /\ \E mp \in {c \in Bodies(Env, MANA_POOL) : c.complete} :
       \E items \in SeqsUpTo(CardKingdomPool, MaxItems) :
          files = [v \in Vendors |->
                     IF v = MANA_POOL THEN Saved(mp)
                     ELSE Saved([items |-> items, complete |-> TRUE])]
    /\ lifespan = "serving"
    /\ task = "refresh_prices"
    /\ phase = "load_mana_pool"
    /\ download = [v \in Vendors |-> TRUE]
    /\ fetch = [v \in Vendors |-> "done"]
    /\ parsed = [v \in Vendors |-> "none"]
    /\ orphans = [v \in Vendors |-> 0]
    /\ response = NoResponse

\* lines 152-155: the two parser calls of the cycle
Parse == LoadManaPool \/ LoadCardKingdom

SpecParse == StartParse /\ [][Parse]_vars

\* an environment of one feed per vendor and one sleep duration, for the
\* specifications that add the queries and the shutdown to the pipeline
SmallEnv ==
    [feeds |-> [v \in Vendors |->
                  IF v = MANA_POOL
                  THEN {f \in ManaPoolFeeds : Len(f) = 3}
                  ELSE {f \in CardKingdomFeeds : Len(f) = 1}],
     sleep |-> {CARD_KINGDOM_MAX_AGE}]

\* the pipeline and the queries clients send while the application serves
Serve ==
    \/ Refresh(SmallEnv)
    \/ \E scryfall_ids \in SeqsUpTo(RequestIds, MaxIds) : GetPrices(scryfall_ids)

SpecServe == Start(SmallEnv) /\ [][Serve]_vars

\* the pipeline and the shutdown
Live == Refresh(SmallEnv) \/ Shutdown(SmallEnv)

\* a step of the code that runs between two suspension points: the event loop
\* runs a task that is ready
Runs == Check \/ GatherRaises \/ GatherReturns \/ LoadManaPool \/ LoadCardKingdom

\* a download ends: with the body, or by an exception, the latest when the
\* HTTP_TIMEOUT of line 59 expires
Ends ==
    \/ \E v \in Vendors : \E body \in Bodies(SmallEnv, v) :
          FetchDone(v, body) \/ OrphanDone(v, body)
    \/ \E v \in Vendors : FetchFailed(SmallEnv, v) \/ OrphanFailed(SmallEnv, v)

\* the sleep of line 162 ends
Wakes == \E d \in SmallEnv.sleep : Wake(d)

\* the event loop delivers the cancellation to the task and resumes lifespan
\* when the task has ended
Stops == TaskCancelled(SmallEnv) \/ Exit

SpecLive ==
    /\ Start(SmallEnv)
    /\ [][Live]_vars
    /\ WF_vars(Runs)
    /\ WF_vars(Ends)
    /\ WF_vars(Wakes)
    /\ WF_vars(Stops)

-----------------------------------------------------------------------------
(* What a payload says, for the properties below *)

\* an item that names a card: the key is there and its value is not null
HasId(item) == "scryfall_id" \in DOMAIN item /\ item.scryfall_id # None

\* the cards a document's items name
Mentioned(file) ==
    IF ~file.exists THEN {}
    ELSE {file.content.items[i].scryfall_id.str :
            i \in {k \in 1..Len(file.content.items) : HasId(file.content.items[k])}}

PriceKey(finish) ==
    CASE finish = "nonfoil" -> "price_cents"
      [] finish = "foil" -> "price_cents_foil"
      [] finish = "etched" -> "price_cents_etched"

\* a Mana Pool document offers finish f of card c: an item of c has a price for it
ManaPoolOffers(file, c, f) ==
    \E i \in 1..Len(file.content.items) :
        LET item == file.content.items[i]
        IN  /\ HasId(item)
            /\ item.scryfall_id.str = c
            /\ PriceKey(f) \in DOMAIN item
            /\ Truthy(item[PriceKey(f)])

\* a Card Kingdom document offers finish f of card c: an item of c is of that finish
CardKingdomOffers(file, c, f) ==
    \E i \in 1..Len(file.content.items) :
        LET item == file.content.items[i]
        IN  /\ HasId(item)
            /\ item.scryfall_id.str = c
            /\ "url" \in DOMAIN item
            /\ Classify(item.url.str) = f

\* a well-formed item: every key its parser reads is there
WellFormed(v, item) ==
    IF v = MANA_POOL
    THEN {"scryfall_id", "url", "price_cents", "price_cents_foil",
          "price_cents_etched"} \subseteq DOMAIN item
    ELSE /\ {"scryfall_id", "url", "price_retail"} \subseteq DOMAIN item
         /\ float(item.price_retail.str).ok

\* the slot of card c for vendor v in a store; None for a card not in it
Slot(store, c, v) == IF c \in DOMAIN store THEN store[c][v] ELSE None

\* the step is this cycle's call of vendor v's parser
Parses(v) ==
    /\ download[v]
    /\ phase = (IF v = MANA_POOL THEN "load_mana_pool" ELSE "load_card_kingdom")

-----------------------------------------------------------------------------
(* C1..C10 *)

\* C1: a cycle in which both vendors need a fetch, Mana Pool's fetch fails and
\* Card Kingdom's succeeds ends with the store holding the Card Kingdom entries
\* of the payload just fetched, and with every Mana Pool slot as before.
C1_PartialFetchStillMerges ==
    [][(/\ phase = "gather" /\ phase' = "idle" /\ task' = "sleep"
        /\ download[MANA_POOL] /\ download[CARD_KINGDOM]
        /\ fetch[MANA_POOL] = "failed" /\ fetch[CARD_KINGDOM] = "done")
       => LET want == load_card_kingdom_prices(prices, files[CARD_KINGDOM]).store
          IN  /\ \A c \in DOMAIN want :
                    Slot(prices', c, CARD_KINGDOM) = want[c][CARD_KINGDOM]
              /\ \A c \in DOMAIN prices' :
                    Slot(prices', c, MANA_POOL) = Slot(prices, c, MANA_POOL)]_vars

\* C2: a process that starts with Card Kingdom's file present and fresh and
\* Mana Pool's file absent ends its priming cycle with a Card Kingdom entry for
\* every card that Card Kingdom's file names, whatever Mana Pool's fetch did.
C2_PrimingLoadsFreshFile ==
    [][(/\ lifespan = "refresh_prices" /\ lifespan' = "serving"
        /\ ~download'[CARD_KINGDOM] /\ files'[CARD_KINGDOM].exists
        /\ files'[CARD_KINGDOM].content.complete
        /\ \A i \in 1..Len(files'[CARD_KINGDOM].content.items) :
              WellFormed(CARD_KINGDOM, files'[CARD_KINGDOM].content.items[i])
        /\ download'[MANA_POOL]
        /\ ~files'[MANA_POOL].exists \/ parsed'[MANA_POOL] # "none")
       => \A c \in Mentioned(files'[CARD_KINGDOM]) :
             Slot(prices', c, CARD_KINGDOM) # None]_vars

\* C3: after a parse of a vendor's payload that ends well, the slot of every card
\* the payload names holds exactly the finishes the payload offers for the card.
C3_SlotReplacedWholesale ==
    [][/\ (Parses(MANA_POOL) /\ parsed'[MANA_POOL] = "ok")
          => \A c \in Mentioned(files[MANA_POOL]) : \A f \in Finishes :
                (Slot(prices', c, MANA_POOL)[f] # None)
                    <=> ManaPoolOffers(files[MANA_POOL], c, f)
       /\ (Parses(CARD_KINGDOM) /\ parsed'[CARD_KINGDOM] = "ok")
          => \A c \in Mentioned(files[CARD_KINGDOM]) : \A f \in Finishes :
                (Slot(prices', c, CARD_KINGDOM)[f] # None)
                    <=> CardKingdomOffers(files[CARD_KINGDOM], c, f)]_vars

\* a cycle has ended by the handler of lines 156-157: a download or a parser
\* raised in it
CycleFailed ==
    /\ phase = "idle"
    /\ \E v \in Vendors : fetch[v] = "failed" \/ parsed[v] = "failed"

\* C4: no error of a fetch or a parse leaves refresh_prices: neither lifespan nor
\* the periodic task ever fails; and while the application serves (the task is
\* not cancelled), after every cycle, failed or not, a later cycle starts.
C4_FailedCycleKeepsSchedule ==
    /\ [](task # "failed" /\ lifespan # "failed")
    /\ (CycleFailed /\ lifespan = "serving")
          ~> (phase = "check" \/ lifespan # "serving")
    /\ (task = "sleep" /\ lifespan = "serving")
          ~> (task = "refresh_prices" \/ lifespan # "serving")

\* C4's case: a cycle starts and the cycle before it failed
C4_Witness ==
    /\ task = "refresh_prices"
    /\ phase = "check"
    /\ \E v \in Vendors : fetch[v] = "failed" \/ parsed[v] = "failed"

\* C5 as stated: position i of the answer is the store's record for the i-th
\* requested id, and the empty record when that id is not a key of the store.
C5_AnswersRequestedIds ==
    [][(response' # response)
       => /\ Len(response'.body) = Len(response'.ids)
          /\ \A i \in 1..Len(response'.ids) :
                response'.body[i] =
                    IF response'.ids[i] \in DOMAIN prices
                    THEN prices[response'.ids[i]] ELSE Price
          /\ prices' = prices]_vars

\* the id line 200 looks up: the requested one without its double quotes
Unquoted(id) == SelectSeq(id, LAMBDA ch : ch # "\"")

\* C5, amended: position i of the answer is the store's record for the i-th
\* requested id with its double quotes removed, and the empty record when
\* that id is not a key of the store; the answer is as long as the request
\* and the query leaves the store as it is.
C5_AnswersUnquotedIds ==
    [][(response' # response)
       => /\ Len(response'.body) = Len(response'.ids)
          /\ \A i \in 1..Len(response'.ids) :
                response'.body[i] =
                    IF Unquoted(response'.ids[i]) \in DOMAIN prices
                    THEN prices[Unquoted(response'.ids[i])] ELSE Price
          /\ prices' = prices]_vars

\* C5's case: a query with a repeated id, a quoted id or an unknown id has been
\* answered from a store that holds a record
C5_Witness ==
    /\ response.sent
    /\ Len(response.ids) = 2
    /\ prices # EmptyStore
    /\ \/ response.ids[1] = response.ids[2] /\ response.ids[1] \in DOMAIN prices
       \/ response.ids[1] \notin DOMAIN prices /\ response.ids[2] \in DOMAIN prices

\* C6: a parse of Mana Pool's payload leaves every card's Card Kingdom slot as
\* it was (None for a card it creates), and a parse of Card Kingdom's payload
\* leaves every card's Mana Pool slot as it was.
C6_OtherVendorUntouched ==
    [][/\ Parses(MANA_POOL)
          => \A c \in DOMAIN prices' :
                Slot(prices', c, CARD_KINGDOM) = Slot(prices, c, CARD_KINGDOM)
       /\ Parses(CARD_KINGDOM)
          => \A c \in DOMAIN prices' :
                Slot(prices', c, MANA_POOL) = Slot(prices, c, MANA_POOL)]_vars

\* C6's case: Mana Pool's parser has just written the slot of a card whose
\* Card Kingdom slot is set
C6_Witness ==
    /\ phase = "load_card_kingdom"
    /\ parsed[MANA_POOL] = "ok"
    /\ \E c \in Mentioned(files[MANA_POOL]) :
          Slot(prices, c, CARD_KINGDOM) # None /\ Slot(prices, c, MANA_POOL) # None

\* C7: parsing the payload a parser has just parsed once more leaves the store
\* as the first parse left it.
C7_UpsertIdempotent ==
    [][/\ Parses(MANA_POOL)
          => load_mana_pool_prices(prices', files[MANA_POOL]).store = prices'
       /\ Parses(CARD_KINGDOM)
          => load_card_kingdom_prices(prices', files[CARD_KINGDOM]).store = prices']_vars

\* C7's case: a parse has written entries over a store that already held some
C7_Witness ==
    /\ phase = "load_card_kingdom"
    /\ parsed[MANA_POOL] = "ok"
    /\ \E c \in Mentioned(files[MANA_POOL]) :
          /\ Slot(prices, c, MANA_POOL) # None
          /\ Slot(prices, c, MANA_POOL).nonfoil # None
          /\ Slot(prices, c, MANA_POOL).foil # None

\* C8: no step removes a card from the store, and a parse leaves the record of
\* every card its payload does not name as it was.
C8_NoDeletion ==
    [][/\ DOMAIN prices \subseteq DOMAIN prices'
       /\ \A v \in Vendors :
             Parses(v) => \A c \in DOMAIN prices \ Mentioned(files[v]) :
                             prices'[c] = prices[c]]_vars

\* C8's case: a parse has run on a payload that does not name a card of the store
C8_Witness ==
    /\ phase = "load_card_kingdom"
    /\ parsed[MANA_POOL] = "ok"
    /\ Mentioned(files[MANA_POOL]) # {}
    /\ \E c \in DOMAIN prices :
          c \notin Mentioned(files[MANA_POOL]) /\ Slot(prices, c, MANA_POOL) # None

\* C9: an item that lacks a key its parser reads is skipped: every well-formed
\* item after it in a complete document has its card's slot set by the parse.
C9_MalformedItemSkipped ==
    [][\A v \in Vendors :
          (Parses(v) /\ files[v].exists /\ files[v].content.complete)
          => \A i \in 1..Len(files[v].content.items) :
                LET item == files[v].content.items[i]
                IN  (WellFormed(v, item) /\ HasId(item))
                    => Slot(prices', item.scryfall_id.str, v) # None]_vars

\* C10: a parse that fails leaves every slot of its vendor as it was.
C10_FailedParseChangesNothing ==
    [][\A v \in Vendors :
          (Parses(v) /\ parsed'[v] = "failed")
          => \A c \in DOMAIN prices' : Slot(prices', c, v) = Slot(prices, c, v)]_vars

-----------------------------------------------------------------------------
(* C11..C20 *)

\* every item of the document is one its vendor's parser reads to the end
AllWellFormed(v, file) ==
    /\ file.exists
    /\ file.content.complete
    /\ \A i \in 1..Len(file.content.items) : WellFormed(v, file.content.items[i])

\* C11: a cycle that fetched both payloads and in which Mana Pool's parse fails
\* still runs Card Kingdom's parser: at the end of the cycle that parser has
\* been called and the cards its (well-formed) payload names have their Card
\* Kingdom slot set.
C11_ParseFailureScopedToVendor ==
    [][(/\ phase # "idle" /\ phase' = "idle"
        /\ download[MANA_POOL] /\ download[CARD_KINGDOM]
        /\ parsed'[MANA_POOL] = "failed")
       => /\ parsed'[CARD_KINGDOM] # "none"
          /\ AllWellFormed(CARD_KINGDOM, files[CARD_KINGDOM])
                => \A c \in Mentioned(files[CARD_KINGDOM]) :
                      Slot(prices', c, CARD_KINGDOM) # None]_vars

\* the store after vendor v's parser has upserted the first k items of a document
Upserted(v, store, items, k) ==
    IF v = MANA_POOL THEN ManaPoolItems(store, SubSeq(items, 1, k))
    ELSE CardKingdomItems(store, SubSeq(items, 1, k))

\* the stores in which every upsert of the parse is either done or not begun:
\* the store after the first k items, for the k that the parser gets through
WholeUpserts(v, store, file) ==
    {Upserted(v, store, file.content.items, k).store :
        k \in {j \in 0..Len(file.content.items) :
                 Upserted(v, store, file.content.items, j).ok}}

\* C12: the store a query can read once a cycle has ended (the application
\* serves and no parser is running) holds whole upserts only: it is the store
\* after some number of the payload's records were upserted completely, with no
\* entry changed in part and no record created without its vendor slot.
C12_NoHalfWrittenEntry ==
    [][\A v \in Vendors :
          (Parses(v) /\ files[v].exists /\ phase' = "idle" /\ lifespan' = "serving")
          => prices' \in WholeUpserts(v, prices, files[v])]_vars

\* lifespan has cancelled the task (line 173) and awaits it
Cancelled == lifespan \in {"await_task", "exited"}

\* C13: once lifespan has cancelled the task, sleeping or inside a cycle, the
\* task ends cancelled and lifespan's await returns, without a wake-up of the
\* sleep in between; and no cycle starts after the cancellation.
C13_CancelStopsLoop ==
    /\ (lifespan = "await_task") ~> (task = "cancelled")
    /\ (lifespan = "await_task") ~> (lifespan = "exited")
    /\ [][Cancelled => /\ ~(phase' = "check" /\ phase # "check")
                       /\ ~(task' = "refresh_prices" /\ task # "refresh_prices")
                       /\ Cancelled']_vars

\* C13's case: the task was cancelled and lifespan's await has returned
C13_Witness == lifespan = "exited" /\ task = "cancelled"

\* C14: after a parse of a Mana Pool payload that ends well, a card the payload
\* names has no FinishEntry for a finish whose price is 0, null or absent in
\* the payload's items for the card.
C14_ZeroPriceNoFinishEntry ==
    [][(Parses(MANA_POOL) /\ files[MANA_POOL].exists /\ parsed'[MANA_POOL] = "ok")
       => \A c \in Mentioned(files[MANA_POOL]) : \A f \in Finishes :
             (~ManaPoolOffers(files[MANA_POOL], c, f)
                 /\ Slot(prices', c, MANA_POOL) # None)
             => Slot(prices', c, MANA_POOL)[f] = None]_vars

\* a cycle is in progress past its freshness checks
InCycle == phase \in {"gather", "load_mana_pool", "load_card_kingdom"}

\* C15: at a cycle's freshness check a vendor is fresh exactly when its file
\* exists and is younger than the vendor's own max-age; a fetch is issued for
\* the vendors that are not fresh and for no other; and for the rest of the
\* cycle the file of a vendor that was fresh is not written.
C15_FreshVendorNotFetched ==
    [][/\ (phase = "check" /\ phase' # "check")
          => \A v \in Vendors :
                LET max_age == IF v = MANA_POOL THEN MANA_POOL_MAX_AGE
                               ELSE CARD_KINGDOM_MAX_AGE
                    fresh == files[v].exists /\ files[v].age < max_age
                IN  /\ download'[v] <=> ~fresh
                    /\ (fetch'[v] = "pending") <=> ~fresh
                    /\ files'[v] = files[v]
       /\ \A v \in Vendors :
             (InCycle /\ ~download[v]) => files'[v] = files[v]]_vars

\* C16: a vendor whose fetch failed in the cycle before is not counted fresh at
\* the next cycle's freshness check, whatever the failed fetch left on disk:
\* its fetch is issued again.
C16_FailedFetchRetried ==
    [][(phase = "check" /\ phase' # "check")
       => \A v \in Vendors :
             fetch[v] = "failed" => (download'[v] /\ fetch'[v] = "pending")]_vars

\* C17: a parser is called only in a cycle that issued its vendor's fetch and
\* saw it succeed; in a cycle that found the vendor fresh, or in which the
\* vendor's fetch failed, the vendor's parser is not called and every slot of
\* the vendor stays as it was.
C17_ParseOnlyOnFreshFetch ==
    [][\A v \in Vendors :
          /\ (parsed'[v] # parsed[v] /\ parsed'[v] # "none")
                => (InCycle /\ download[v] /\ fetch[v] = "done")
          /\ (InCycle /\ (~download[v] \/ fetch[v] = "failed"))
                => /\ parsed'[v] = "none"
                   /\ \A c \in DOMAIN prices' : Slot(prices', c, v) = Slot(prices, c, v)]_vars

\* C17's case: a cycle has parsed Mana Pool's payload and has left alone Card
\* Kingdom, whose file was fresh and whose entries are in the store
C17_Witness ==
    /\ phase = "idle"
    /\ parsed[MANA_POOL] = "ok"
    /\ ~download[CARD_KINGDOM]
    /\ parsed[CARD_KINGDOM] = "none"
    /\ \E c \in DOMAIN prices : Slot(prices, c, CARD_KINGDOM) # None

\* C18: while the priming refresh runs there is no periodic task and no query
\* is answered; the priming refresh, ended well or by a caught error, is
\* followed by the creation of the task and the start of serving; the task
\* begins by sleeping, and a steady-state cycle starts only from a sleep that
\* lasted the interval at least.
C18_PrimingBeforeServing ==
    [][/\ (lifespan' = "refresh_prices")
          => (task' = "not_created" /\ ~response'.sent)
       /\ (task = "not_created" /\ task' # "not_created")
          => (lifespan = "refresh_prices" /\ phase' = "idle" /\ task' = "sleep")
       /\ (lifespan = "refresh_prices" /\ phase' = "idle")
          => (lifespan' = "serving" /\ task' = "sleep")
       /\ (task' = "refresh_prices" /\ task # "refresh_prices")
          => /\ task = "sleep"
             /\ lifespan = "serving"
             /\ \A v \in Vendors :
                   files[v].exists
                   => files'[v].age >= Min(files[v].age + REFRESH_INTERVAL, MaxAge(v))]_vars

\* C18's case: the priming refresh failed, the store is empty, and the
\* application serves: it has answered a query and the task sleeps
C18_Witness ==
    /\ lifespan = "serving"
    /\ task = "sleep"
    /\ prices = EmptyStore
    /\ \E v \in Vendors : fetch[v] = "failed"
    /\ response.sent

\* C19: refresh_prices has one caller at a time: lifespan for the priming cycle,
\* when the task does not exist yet, and the task afterwards; a cycle starts
\* only when no cycle is in progress; and the store is written only by the
\* parser step of the cycle in progress, one parser per step.
C19_CyclesNeverOverlap ==
    [][/\ ~(lifespan' = "refresh_prices" /\ task' # "not_created")
       /\ (phase' # "idle") <=> (lifespan' = "refresh_prices" \/ task' = "refresh_prices")
       /\ (phase' = "check") => (phase = "idle" /\ task = "sleep")
       /\ (prices' # prices)
             => /\ phase \in {"load_mana_pool", "load_card_kingdom"}
                /\ \E v \in Vendors : Parses(v) /\ parsed'[v] # "none"
                      /\ \A w \in Vendors \ {v} : parsed'[w] = parsed[w]]_vars

\* C19's case: a steady-state cycle is in progress, between its two parsers,
\* on a store that earlier cycles have written
C19_Witness ==
    /\ lifespan = "serving"
    /\ task = "refresh_prices"
    /\ phase = "load_card_kingdom"
    /\ parsed[MANA_POOL] = "ok"
    /\ download[CARD_KINGDOM]
    /\ \E c \in DOMAIN prices : Slot(prices, c, CARD_KINGDOM) # None

\* items i and j of a document are of the same card and of the same finish
SameFinish(items, i, j) ==
    /\ items[i].scryfall_id = items[j].scryfall_id
    /\ Classify(items[i].url.str) = Classify(items[j].url.str)

\* C20: after a parse of a Card Kingdom payload that ends well, every item that
\* is the last of its card and finish in the payload has its FinishEntry in
\* the card's Card Kingdom entry: the finishes of a card's items accumulate in
\* one entry, and of several items of one finish the last is kept.
C20_FinishesAccumulateLastWins ==
    [][(Parses(CARD_KINGDOM) /\ parsed'[CARD_KINGDOM] = "ok")
       => LET items == files[CARD_KINGDOM].content.items
          IN  \A i \in 1..Len(items) :
                 (HasId(items[i])
                    /\ \A j \in (i + 1)..Len(items) :
                          HasId(items[j]) => ~SameFinish(items, i, j))
                 => Slot(prices', items[i].scryfall_id.str, CARD_KINGDOM)
                        [Classify(items[i].url.str)]
                    = FinishEntry(CARD_KINGDOM_ORIGIN \o items[i].url.str,
                                  format_price(float(items[i].price_retail.str).value,
                                               "$"))]_vars

\* C20's case: a parse has ended well on a payload with two items of one card
\* and finish at different prices and, between them, an item of the same card
\* in another finish
C20_Witness ==
    /\ phase = "idle"
    /\ parsed[CARD_KINGDOM] = "ok"
    /\ LET items == files[CARD_KINGDOM].content.items
       IN  /\ Len(items) = 3
           /\ SameFinish(items, 1, 3)
           /\ items[1].price_retail # items[3].price_retail
           /\ items[2].scryfall_id = items[1].scryfall_id
           /\ ~SameFinish(items, 1, 2)
           /\ \A f \in {Classify(items[1].url.str), Classify(items[2].url.str)} :
                 Slot(prices, items[1].scryfall_id.str, CARD_KINGDOM)[f] # None

====
